---- MODULE Spec2Model ----
(***************************************************************************)
(* Bookableu backend: the book indexing pipeline (process_book), the book  *)
(* routes (upload_book, delete_book, update_book, query_book) and the      *)
(* object store and database rows they share.                              *)
(*                                                                         *)
(* Python strings are sequences of one-character strings, so that key      *)
(* formatting, splitext, split and join are computed, not assumed.         *)
(***************************************************************************)
EXTENDS Integers, Sequences, FiniteSets, TLC

\* ------------------------------------------------------------------ bounds
\* Number of upload_book requests in one behaviour.
MaxBooks == 2
\* Books uploaded in SpecRun and in SpecQ
MaxFewBooks == 1
\* Number of query_book requests in one behaviour.
MaxQueries == 1
\* Cap of the books_finished counter of a user.
MaxFinished == 1
\* Pages of the longest PDF in SpecExtract.
MaxPages == 25
\* Calls of process_book after the first of an upload, in SpecRetry.
MaxRetries == 1
\* Seconds an extraction is followed for in SpecWait.
MaxWait == 62
\* Calls of extract_text in SpecCache.
MaxCalls == 3
\* Length of the longest text and largest chunk size in SpecChunk.
MaxLen == 6
MaxSize == 3

\* ------------------------------------------------------- program constants
\* process_book: chunk_text(text, chunk_size=500)
chunk_size == 500
\* query_book: k = min(5, len(chunks))
top_k == 5
\* EXTRACTION_TIMEOUT = 60, in seconds: no statement of the program reads it
EXTRACTION_TIMEOUT == 60

None == "None"
\* An Optional[int]: NoInt is None, Some(n) is the int n
NoInt == <<>>
Some(n) == <<n>>
\* A local variable of a running coroutine that no statement has assigned yet.
Unbound == "Unbound"

Min(a, b) == IF a < b THEN a ELSE b
Max(a, b) == IF a > b THEN a ELSE b

\* ----------------------------------------------------------------- strings
DigitChars == <<"0", "1", "2", "3", "4", "5", "6", "7", "8", "9">>

\* str(n) of a non-negative int
RECURSIVE str(_)
str(n) == IF n < 10 THEN <<DigitChars[n + 1]>>
          ELSE str(n \div 10) \o <<DigitChars[(n % 10) + 1]>>

DigitValue(ch) == (CHOOSE d \in 1..10 : DigitChars[d] = ch) - 1
IsDigit(ch) == \E d \in 1..10 : DigitChars[d] = ch

\* int(s) of a form field: [raised, value]; ValueError unless s is an optional
\* sign followed by digits.
RECURSIVE DigitsValue(_)
DigitsValue(s) == IF s = <<>> THEN 0
                  ELSE 10 * DigitsValue(SubSeq(s, 1, Len(s) - 1)) + DigitValue(s[Len(s)])
int(s) ==
  LET neg == s # <<>> /\ s[1] = "-"
      pos == s # <<>> /\ s[1] = "+"
      digits == IF neg \/ pos THEN Tail(s) ELSE s
  IN IF digits = <<>> \/ \E i \in 1..Len(digits) : ~IsDigit(digits[i])
     THEN [raised |-> TRUE, value |-> 0]
     ELSE [raised |-> FALSE,
           value |-> IF neg THEN 0 - DigitsValue(digits) ELSE DigitsValue(digits)]

endswith(s, suffix) ==
  /\ Len(s) >= Len(suffix)
  /\ SubSeq(s, Len(s) - Len(suffix) + 1, Len(s)) = suffix

\* os.path.splitext: the extension starts at the last dot of the last path
\* component, unless only dots precede it there.
splitext(p) ==
  LET sep == IF \E i \in 1..Len(p) : p[i] = "/"
             THEN CHOOSE i \in 1..Len(p) : p[i] = "/" /\ \A j \in (i + 1)..Len(p) : p[j] # "/"
             ELSE 0
      dot == IF \E i \in 1..Len(p) : p[i] = "."
             THEN CHOOSE i \in 1..Len(p) : p[i] = "." /\ \A j \in (i + 1)..Len(p) : p[j] # "."
             ELSE 0
  IN IF dot > sep /\ \E j \in (sep + 1)..(dot - 1) : p[j] # "."
     THEN <<SubSeq(p, 1, dot - 1), SubSeq(p, dot, Len(p))>>
     ELSE <<p, <<>>>>

IsSpace(ch) == ch \in {" ", "\n", "\t"}

\* Concatenation of a sequence of strings with a separator between them, by
\* halving (the texts are too long for a recursion one element at a time).
RECURSIVE JoinRange(_, _, _, _)
JoinRange(sep, parts, lo, hi) ==
  IF lo > hi THEN <<>>
  ELSE IF lo = hi THEN parts[lo]
  ELSE LET mid == (lo + hi) \div 2
       IN JoinRange(sep, parts, lo, mid) \o sep \o JoinRange(sep, parts, mid + 1, hi)

\* sep.join(parts)
join(sep, parts) == JoinRange(sep, parts, 1, Len(parts))

\* The positions in lo..hi where a word of s starts, in increasing order.
RECURSIVE WordStarts(_, _, _)
WordStarts(s, lo, hi) ==
  IF lo > hi THEN <<>>
  ELSE IF lo = hi
       THEN IF ~IsSpace(s[lo]) /\ (lo = 1 \/ IsSpace(s[lo - 1])) THEN <<lo>> ELSE <<>>
  ELSE LET mid == (lo + hi) \div 2
       IN WordStarts(s, lo, mid) \o WordStarts(s, mid + 1, hi)

WordEnd(s, i) == CHOOSE j \in i..Len(s) :
                    /\ \A m \in i..j : ~IsSpace(s[m])
                    /\ (j = Len(s) \/ IsSpace(s[j + 1]))

\* str.split(): the maximal runs of non-whitespace characters, in order
split(s) ==
  LET starts == WordStarts(s, 1, Len(s))
  IN [k \in 1..Len(starts) |-> SubSeq(s, starts[k], WordEnd(s, starts[k]))]

\* ------------------------------------------------------------- chunk_text
\* range(start, stop, step) for a step >= 1
RECURSIVE range(_, _, _)
range(start, stop, step) ==
  IF start >= stop THEN <<>> ELSE <<start>> \o range(start + step, stop, step)

\* s[i:j] for 0 <= i <= j
Slice(s, i, j) == SubSeq(s, i + 1, Min(j, Len(s)))

\* A version of chunk_text that joins the words of a chunk without a separator
chunk_text_glued(text, size) ==
  LET words == split(text)
      starts == range(0, Len(words), size)
  IN [c \in 1..Len(starts) |-> join(<<>>, Slice(words, starts[c], starts[c] + size))]

\* A version of chunk_text that leaves out a last chunk of fewer than size words
chunk_text_floor(text, size) ==
  LET words == split(text)
      starts == range(0, Len(words) - size + 1, size)
  IN [c \in 1..Len(starts) |-> join(<<" ">>, Slice(words, starts[c], starts[c] + size))]

\* words = text.split()
\* for i in range(0, len(words), chunk_size): chunks.append(" ".join(words[i:i+chunk_size]))
chunk_text(text, size) ==
  LET words == split(text)
      starts == range(0, Len(words), size)
  IN [c \in 1..Len(starts) |-> join(<<" ">>, Slice(words, starts[c], starts[c] + size))]

\* ------------------------------------------------- documents (PyMuPDF, ebooklib)
Rep(w, n) == [i \in 1..n |-> w]

\* File contents used as upload inputs, and what the parsing libraries make of
\* them: the texts of the pages of a PDF, or of the document items of an EPUB.
\* "pB" has 501 words, one more than a chunk holds; "pC" has words of one
\* character only; "pE" is a page without text; "pD" is another one-page PDF.
Contents == {"pA", "pB", "eA", "bad", "pC", "pE", "pD"}
Documents ==
  [c \in Contents |->
     CASE c = "pA" -> [format |-> "pdf",
                       parts |-> << <<"x", "x", " ", "y", "y", "\n">> >>]
       [] c = "pB" -> [format |-> "pdf",
                       parts |-> << join(<<" ">>, Rep(<<"y">>, chunk_size)) \o <<"\n">>,
                                    <<"z", "z", "\n">> >>]
       [] c = "eA" -> [format |-> "epub",
                       parts |-> << <<"z", "z", " ", "x", "x">> >>]
       [] c = "pC" -> [format |-> "pdf",
                       parts |-> << <<"x", " ", "y", "\n">> >>]
       [] c = "pE" -> [format |-> "pdf", parts |-> << <<>> >>]
       [] c = "pD" -> [format |-> "pdf",
                       parts |-> << <<"y", "y", " ", "z", "z", "\n">> >>]
       [] OTHER    -> [format |-> "junk", parts |-> <<>>]]

\* fitz.open(path): raises unless the bytes are a PDF; len() is the page count
fitz_open(content) ==
  IF Documents[content].format = "pdf"
  THEN [raised |-> FALSE, pages |-> Documents[content].parts]
  ELSE [raised |-> TRUE, pages |-> <<>>]

\* epub.read_epub(file_obj): raises unless the bytes are an EPUB
read_epub(content) ==
  IF Documents[content].format = "epub"
  THEN [raised |-> FALSE, items |-> Documents[content].parts]
  ELSE [raised |-> TRUE, items |-> <<>>]

\* hash(bytes): an int of 64 bits computed from contents of any length, so
\* that distinct contents can have one hash. Of the contents used here "pD"
\* has the hash of "pA", and the others have hashes of their own.
ContentOrder == <<"pA", "pB", "eA", "bad", "pC", "pE">>
hash(content) ==
  LET c == IF content = "pD" THEN "pA" ELSE content
  IN CHOOSE h \in 1..Len(ContentOrder) : ContentOrder[h] = c

S_pdf == <<".", "p", "d", "f">>
S_epub == <<".", "e", "p", "u", "b">>

\* cache_key = f"{filename}_{hash(file_obj.getvalue())}"
cache_key(filename, content) == filename \o <<"_">> \o str(hash(content))

\* d[k] = v on a dict
Put(d, k, v) == [x \in (DOMAIN d) \cup {k} |-> IF x = k THEN v ELSE d[x]]
\* del d[k], a no-op when k is absent
Remove(d, k) == [x \in (DOMAIN d) \ {k} |-> d[x]]
EmptyDict == [x \in {} |-> None]

\* extract_text: [raised, text, cache], cache being text_cache afterwards.
\* Pages of a PDF are joined in page order: asyncio.gather returns the results
\* of a batch in the order of its arguments.
extract_text(cache, content, filename) ==
  LET key == cache_key(filename, content)
      failed == [raised |-> TRUE, text |-> None, cache |-> cache]
  IN IF key \in DOMAIN cache
     THEN [raised |-> FALSE, text |-> cache[key], cache |-> cache]
     ELSE IF endswith(filename, S_pdf)
     THEN LET pdf_document == fitz_open(content)
              text == join(<<>>, pdf_document.pages)
          IN IF pdf_document.raised THEN failed
             ELSE [raised |-> FALSE, text |-> text, cache |-> Put(cache, key, text)]
     ELSE IF endswith(filename, S_epub)
     THEN LET book == read_epub(content)
              text == join(<<"\n">>, book.items)
          IN IF book.raised THEN failed
             ELSE [raised |-> FALSE, text |-> text, cache |-> Put(cache, key, text)]
     ELSE failed

\* process_book: detected_pages, [raised, value]
detect_pages(content, filename) ==
  IF endswith(filename, S_pdf)
  THEN LET pdf_document == fitz_open(content)
       IN [raised |-> pdf_document.raised, value |-> Some(Len(pdf_document.pages))]
  ELSE [raised |-> FALSE, value |-> NoInt]

\* ------------------------------------------- TfidfVectorizer and the index
\* The analyzer's tokens: runs of two or more word characters. The texts here
\* hold lower-case letters and whitespace only, so these are the words of two
\* or more characters.
IsToken(w) == Len(w) >= 2
tokens(doc) == SelectSeq(split(doc), IsToken)

Count(t, ts) == Cardinality({i \in 1..Len(ts) : ts[i] = t})

\* The row of a document under a fitted vectorizer, kept as its term counts
\* over the vocabulary: the tf-idf weights and the normalisation of the row are
\* functions of these counts and of the fitted model.
transform(vectorizer, doc) ==
  LET ts == tokens(doc)
  IN [t \in vectorizer.vocabulary |-> Count(t, ts)]

\* TfidfVectorizer(max_features=1000).fit_transform(chunks): ValueError on an
\* empty vocabulary. The inputs here have fewer than max_features terms.
fit_transform(chunks) ==
  LET toks == [i \in 1..Len(chunks) |-> tokens(chunks[i])]
      vocabulary == UNION {{toks[i][j] : j \in 1..Len(toks[i])} : i \in 1..Len(chunks)}
      vectorizer == [vocabulary |-> vocabulary,
                     df |-> [t \in vocabulary |->
                               Cardinality({i \in 1..Len(chunks) : Count(t, toks[i]) > 0})],
                     n_docs |-> Len(chunks)]
  IN IF vocabulary = {}
     THEN [raised |-> TRUE, vectorizer |-> None, matrix |-> <<>>]
     ELSE [raised |-> FALSE, vectorizer |-> vectorizer,
           matrix |-> [i \in 1..Len(chunks) |->
                         [t \in vocabulary |-> Count(t, toks[i])]]]

\* faiss.IndexFlatL2(embeddings.shape[1]) and index.add(embeddings)
build_index(embeddings) ==
  [d |-> Cardinality(DOMAIN embeddings[1]), vectors |-> embeddings]

\* chunk_text, fit_transform and build_index as process_book applies them,
\* tabulated over the texts the documents above extract to: the table of a text
\* is the value of the operators on it, computed once.
DocumentTexts ==
  {join(<<>>, Documents[c].parts) : c \in Contents} \cup
  {join(<<"\n">>, Documents[c].parts) : c \in Contents}
Indexed ==
  [text \in DocumentTexts |->
     LET chunks == chunk_text(text, chunk_size)
         fitted == fit_transform(chunks)
     IN [chunks |-> chunks,
         fitted |-> fitted,
         index |-> IF fitted.raised THEN None ELSE build_index(fitted.matrix)]]

\* ------------------------------------------------------------ object keys
S_users == <<"u", "s", "e", "r", "s", "/">>
S_text == <<"_", "t", "e", "x", "t", ".", "t", "x", "t">>
S_index == <<"_", "i", "n", "d", "e", "x", ".", "f", "a", "i", "s", "s">>
S_vectorizer == <<"_", "v", "e", "c", "t", "o", "r", "i", "z", "e", "r", ".", "p", "k", "l">>
S_chunks == <<"_", "c", "h", "u", "n", "k", "s", ".", "p", "k", "l">>
S_tmp == <<"/", "t", "m", "p", "/">>

user_prefix(user_id) == S_users \o user_id \o <<"/">>

\* f"users/{user_id}/{os.path.splitext(filename)[0]}_index.faiss" and the like
index_key_of(user_id, filename) == user_prefix(user_id) \o splitext(filename)[1] \o S_index
vectorizer_key_of(user_id, filename) ==
  user_prefix(user_id) \o splitext(filename)[1] \o S_vectorizer
chunks_key_of(user_id, filename) == user_prefix(user_id) \o splitext(filename)[1] \o S_chunks
\* f"/tmp/{filename}_index.faiss"
index_file_path(filename) == S_tmp \o filename \o S_index

\* ------------------------------------------------------------------ state
VARIABLES
  books,          \* the books table: book id -> row
  next_id,        \* the next primary key of the books table
  books_finished, \* users.books_finished of each user
  store,          \* the S3 bucket: key -> object
  runs,           \* upload_book requests and the process_book tasks they start
  text_cache,     \* book_service.text_cache
  tmp_files,      \* the files under /tmp that process_book writes
  query,          \* the query_book request in progress, with its response
  n_queries,      \* query_book requests so far
  reply,          \* the response of the last get_book request
  fn,             \* a call of chunk_text or of extract_text on its own
  users,          \* the users table, in the order of registration
  auth            \* the last request to /auth, with its response

vars == <<books, next_id, books_finished, store, runs, text_cache, tmp_files,
          query, n_queries, reply, fn, users, auth>>

Users == {<<"1">>, <<"2">>}
ALLOWED_EXTENSIONS == {S_pdf, S_epub}

PROCESSING == "processing"
UNREAD == "unread"
READING == "reading"
FINISHED == "finished"
BookStatus == {UNREAD, READING, FINISHED, PROCESSING}

\* The truth value Python gives an Optional[int] and an Optional[str] in a
\* condition: None, 0 and the empty string are false. None and the empty string
\* are both written <<>>: no condition of the program tells them apart.
TruthyInt(v) == v # NoInt /\ v[1] # 0
TruthyStr(s) == s # <<>>

\* db.query(Book).filter(Book.user_id == user_id, Book.file_key == file_key):
\* the ids of the matching rows
ByFileKey(bks, user_id, file_key) ==
  {b \in DOMAIN bks : bks[b].user_id = user_id /\ bks[b].file_key = file_key}

\* generate_unique_keys: the while loop, entered with the keys tried so far
RECURSIVE unique_keys_loop(_, _, _, _, _, _, _)
unique_keys_loop(bks, user_id, base_name, ext, file_key, text_key, counter) ==
  IF ByFileKey(bks, user_id, file_key) # {}
  THEN unique_keys_loop(bks, user_id, base_name, ext,
                        user_prefix(user_id) \o base_name \o str(counter) \o ext,
                        user_prefix(user_id) \o base_name \o str(counter) \o S_text,
                        counter + 1)
  ELSE <<file_key, text_key>>

generate_unique_keys(bks, base_filename, user_id) ==
  LET base_name == splitext(base_filename)[1]
      ext == splitext(base_filename)[2]
  IN unique_keys_loop(bks, user_id, base_name, ext,
                      user_prefix(user_id) \o base_filename,
                      user_prefix(user_id) \o base_name \o S_text,
                      1)

\* The objects process_book uploads, by the way they are serialized
RawObject(content) == [format |-> "bytes", data |-> content]
FaissObject(index) == [format |-> "faiss", data |-> index]
PickleObject(obj) == [format |-> "pickle", data |-> obj]
TextObject(text) == [format |-> "utf-8", data |-> text]

\* The service with no book, no object and no request yet
InitService ==
  /\ books = EmptyDict
  /\ next_id = 1
  /\ books_finished = [u \in Users |-> 0]
  /\ store = EmptyDict
  /\ runs = <<>>
  /\ text_cache = EmptyDict
  /\ tmp_files = {}
  /\ query = [pc |-> "idle"]
  /\ n_queries = 0
  /\ reply = [pc |-> "idle"]
  /\ users = <<>>
  /\ auth = [op |-> "none"]

Init ==
  /\ InitService
  /\ fn = [pc |-> "idle"]

\* ------------------------------------------------------------ upload_book
\* upload_book up to `await file.read()`: the checks of the request and the
\* keys. A request that is rejected changes nothing.
upload_book(user_id, filename, content, total_pages) ==
  LET parsed == IF TruthyStr(total_pages)
                THEN [raised |-> int(total_pages).raised,
                      value |-> Some(int(total_pages).value)]
                ELSE [raised |-> FALSE, value |-> NoInt]
      keys == generate_unique_keys(books, filename, user_id)
  IN /\ \E ext \in ALLOWED_EXTENSIONS : endswith(filename, ext)
     /\ ~parsed.raised
     /\ runs' = Append(runs,
          [pc |-> "reading", failed_at |-> None, committed_to |-> NoInt, book_id |-> NoInt,
           file_content |-> content, file_key |-> keys[1], text_key |-> keys[2],
           filename |-> filename, user_id |-> user_id,
           total_pages |-> parsed.value, earlier |-> <<>>, waited |-> 0,
           text |-> Unbound, detected_pages |-> Unbound, chunks |-> Unbound,
           vectorizer |-> Unbound, index |-> Unbound])
     /\ UNCHANGED <<books, next_id, books_finished, store, text_cache, tmp_files,
                    query, n_queries, reply, fn, users, auth>>

\* upload_book from `Book(...)` on: the row, and the background task
upload_book_add(i, db_ok) ==
  LET r == runs[i]
      book == [user_id |-> r.user_id,
               title |-> splitext(r.filename)[1],
               file_key |-> r.file_key,
               text_key |-> r.text_key,
               total_pages |-> r.total_pages,
               current_page |-> 0,
               status |-> PROCESSING,
               book_metadata |-> EmptyDict]
  IN /\ r.pc = "reading"
     /\ IF db_ok
        THEN /\ books' = Put(books, next_id, book)
             /\ next_id' = next_id + 1
             /\ runs' = [runs EXCEPT ![i].pc = "raw", ![i].book_id = Some(next_id)]
        ELSE /\ runs' = [runs EXCEPT ![i].pc = "rejected"]
             /\ UNCHANGED <<books, next_id>>
     /\ UNCHANGED <<books_finished, store, text_cache, tmp_files, query, n_queries, reply, fn, users, auth>>

\* ----------------------------------------------------------- process_book
\* The task is a coroutine: it runs from one await to the next without giving
\* way, so each action below is one such stretch, with the effect of the
\* upload it awaits.

\* A handler that records the failure on the rows of the task's book
rollback_marks(bks, user_id, file_key) ==
  [b \in DOMAIN bks |->
     IF bks[b].user_id = user_id /\ bks[b].file_key = file_key
     THEN [bks[b] EXCEPT !.status = UNREAD]
     ELSE bks[b]]

\* except Exception: logger.error(...); db.rollback(). The session holds no
\* change of the task when this runs: the rows are as they were.
rollback(bks, user_id, file_key) == bks

\* The task after an exception in the step `step`
Failed(r, step) ==
  [r EXCEPT !.pc = "failed", !.failed_at = step,
            !.text = Unbound, !.detected_pages = Unbound, !.chunks = Unbound,
            !.vectorizer = Unbound, !.index = Unbound]

pb_fail(i, step) ==
  /\ runs' = [runs EXCEPT ![i] = Failed(runs[i], step)]
  /\ books' = rollback(books, runs[i].user_id, runs[i].file_key)

\* await upload_fileobj_to_s3(file_io, ..., file_key, ...)
pb_raw(i, s3_ok) ==
  LET r == runs[i]
  IN /\ r.pc = "raw"
     /\ IF s3_ok
        THEN /\ store' = Put(store, r.file_key, RawObject(r.file_content))
             /\ runs' = [runs EXCEPT ![i].pc = "extract"]
             /\ UNCHANGED books
        ELSE /\ pb_fail(i, "raw")
             /\ UNCHANGED store
     /\ UNCHANGED <<next_id, books_finished, text_cache, tmp_files, query, n_queries, reply, fn, users, auth>>

\* extract_text, the page count, chunk_text, the vectorizer, the index and
\* faiss.write_index to the temporary file
pb_extract(i) ==
  LET r == runs[i]
      extracted == extract_text(text_cache, r.file_content, r.filename)
      detected == detect_pages(r.file_content, r.filename)
      chunks == Indexed[extracted.text].chunks
      fitted == Indexed[extracted.text].fitted
  IN /\ r.pc = "extract"
     /\ IF extracted.raised
        THEN /\ pb_fail(i, "extract")
             /\ UNCHANGED <<text_cache, tmp_files>>
        ELSE IF detected.raised
        THEN /\ pb_fail(i, "pages")
             /\ text_cache' = extracted.cache
             /\ UNCHANGED tmp_files
        ELSE IF fitted.raised
        THEN /\ pb_fail(i, "fit")
             /\ text_cache' = extracted.cache
             /\ UNCHANGED tmp_files
        ELSE /\ runs' = [runs EXCEPT ![i].pc = "index",
                                     ![i].text = extracted.text,
                                     ![i].detected_pages = detected.value,
                                     ![i].chunks = chunks,
                                     ![i].vectorizer = fitted.vectorizer,
                                     ![i].index = Indexed[extracted.text].index]
             /\ text_cache' = extracted.cache
             /\ tmp_files' = tmp_files \cup {index_file_path(r.filename)}
             /\ UNCHANGED books
     /\ UNCHANGED <<next_id, books_finished, store, query, n_queries, reply, fn, users, auth>>

\* text = await extract_text(...) has not returned yet: the page tasks are
\* still running in the thread pool, and the coroutine is awaiting them with
\* no timeout. `waited` is the time the task has been in this await, in seconds.
pb_extract_wait(i) ==
  /\ runs[i].pc = "extract"
  /\ runs[i].waited < MaxWait
  /\ runs' = [runs EXCEPT ![i].waited = @ + 1]
  /\ UNCHANGED <<books, next_id, books_finished, store, text_cache, tmp_files,
                 query, n_queries, reply, fn, users, auth>>

\* await upload_fileobj_to_s3(index_io, ..., index_key, ...)
pb_index(i, s3_ok) ==
  LET r == runs[i]
  IN /\ r.pc = "index"
     /\ IF s3_ok
        THEN /\ store' = Put(store, index_key_of(r.user_id, r.filename), FaissObject(r.index))
             /\ runs' = [runs EXCEPT ![i].pc = "vectorizer"]
             /\ UNCHANGED books
        ELSE /\ pb_fail(i, "index")
             /\ UNCHANGED store
     /\ UNCHANGED <<next_id, books_finished, text_cache, tmp_files, query, n_queries, reply, fn, users, auth>>

\* os.remove(index_file_path), then
\* await upload_fileobj_to_s3(vectorizer_io, ..., vectorizer_key, ...)
pb_vectorizer(i, s3_ok) ==
  LET r == runs[i]
      path == index_file_path(r.filename)
  IN /\ r.pc = "vectorizer"
     /\ IF path \notin tmp_files
        THEN /\ pb_fail(i, "remove")
             /\ UNCHANGED <<store, tmp_files>>
        ELSE /\ tmp_files' = tmp_files \ {path}
             /\ IF s3_ok
                THEN /\ store' = Put(store, vectorizer_key_of(r.user_id, r.filename),
                                     PickleObject(r.vectorizer))
                     /\ runs' = [runs EXCEPT ![i].pc = "chunks"]
                     /\ UNCHANGED books
                ELSE /\ pb_fail(i, "vectorizer")
                     /\ UNCHANGED store
     /\ UNCHANGED <<next_id, books_finished, text_cache, query, n_queries, reply, fn, users, auth>>

\* await upload_fileobj_to_s3(chunks_io, ..., chunks_key, ...)
pb_chunks(i, s3_ok) ==
  LET r == runs[i]
  IN /\ r.pc = "chunks"
     /\ IF s3_ok
        THEN /\ store' = Put(store, chunks_key_of(r.user_id, r.filename), PickleObject(r.chunks))
             /\ runs' = [runs EXCEPT ![i].pc = "text"]
             /\ UNCHANGED books
        ELSE /\ pb_fail(i, "chunks")
             /\ UNCHANGED store
     /\ UNCHANGED <<next_id, books_finished, text_cache, tmp_files, query, n_queries, reply, fn, users, auth>>

\* await upload_fileobj_to_s3(text_io, ..., text_key, ...)
pb_text(i, s3_ok) ==
  LET r == runs[i]
  IN /\ r.pc = "text"
     /\ IF s3_ok
        THEN /\ store' = Put(store, r.text_key, TextObject(r.text))
             /\ runs' = [runs EXCEPT ![i].pc = "commit"]
             /\ UNCHANGED books
        ELSE /\ pb_fail(i, "text")
             /\ UNCHANGED store
     /\ UNCHANGED <<next_id, books_finished, text_cache, tmp_files, query, n_queries, reply, fn, users, auth>>

\* A commit that adds the chunk count to the one the row already has
commit_metadata_adds(book, r) ==
  [book EXCEPT
     !.total_pages = IF TruthyInt(r.detected_pages)
                        /\ (~TruthyInt(r.total_pages) \/ r.total_pages = Some(0))
                     THEN r.detected_pages ELSE @,
     !.book_metadata = [extracted |-> TRUE,
                        index_key |-> index_key_of(r.user_id, r.filename),
                        vectorizer_key |-> vectorizer_key_of(r.user_id, r.filename),
                        chunks_key |-> chunks_key_of(r.user_id, r.filename),
                        num_chunks |-> Len(r.chunks) +
                                       (IF "num_chunks" \in DOMAIN book.book_metadata
                                        THEN book.book_metadata["num_chunks"] ELSE 0)],
     !.status = UNREAD]

\* A commit that takes the detected page count whatever the caller supplied
commit_metadata_detected(book, r) ==
  [book EXCEPT
     !.total_pages = IF TruthyInt(r.detected_pages) THEN r.detected_pages ELSE @,
     !.book_metadata = [extracted |-> TRUE,
                        index_key |-> index_key_of(r.user_id, r.filename),
                        vectorizer_key |-> vectorizer_key_of(r.user_id, r.filename),
                        chunks_key |-> chunks_key_of(r.user_id, r.filename),
                        num_chunks |-> Len(r.chunks)],
     !.status = UNREAD]

\* The row process_book commits: total_pages, book_metadata and status
commit_metadata(book, r) ==
  [book EXCEPT
     !.total_pages = IF TruthyInt(r.detected_pages)
                        /\ (~TruthyInt(r.total_pages) \/ r.total_pages = Some(0))
                     THEN r.detected_pages ELSE @,
     !.book_metadata = [extracted |-> TRUE,
                        index_key |-> index_key_of(r.user_id, r.filename),
                        vectorizer_key |-> vectorizer_key_of(r.user_id, r.filename),
                        chunks_key |-> chunks_key_of(r.user_id, r.filename),
                        num_chunks |-> Len(r.chunks)],
     !.status = UNREAD]

\* The task once it has ended without an exception
Done(r, b) ==
  [r EXCEPT !.pc = "done", !.committed_to = b,
            !.text = Unbound, !.detected_pages = Unbound, !.chunks = Unbound,
            !.vectorizer = Unbound, !.index = Unbound]

\* book = db.query(Book).filter(...).first(); if book: ...; db.commit().
\* first() has no ORDER BY: any matching row may be the one returned.
pb_commit(i, db_ok) ==
  LET r == runs[i]
      found == ByFileKey(books, r.user_id, r.file_key)
  IN /\ r.pc = "commit"
     /\ IF found = {}
        THEN /\ runs' = [runs EXCEPT ![i] = Done(r, NoInt)]
             /\ UNCHANGED books
        ELSE IF db_ok
        THEN \E b \in found :
               /\ books' = [books EXCEPT ![b] = commit_metadata(books[b], r)]
               /\ runs' = [runs EXCEPT ![i] = Done(r, Some(b))]
        ELSE pb_fail(i, "commit")
     /\ UNCHANGED <<next_id, books_finished, store, text_cache, tmp_files, query, n_queries, reply, fn, users, auth>>

\* process_book called again with the arguments of the task, once the task has
\* ended: the coroutine starts over at its first upload. `earlier` keeps how
\* the calls before this one ended.
RECURSIVE Retries(_, _)
Retries(rs, i) == IF i > Len(rs) THEN 0 ELSE Len(rs[i].earlier) + Retries(rs, i + 1)

retry_process_book(i) ==
  LET r == runs[i]
  IN /\ r.pc \in {"failed", "done"}
     /\ Retries(runs, 1) < MaxRetries
     /\ runs' = [runs EXCEPT ![i] =
                   [r EXCEPT !.pc = "raw", !.failed_at = None, !.committed_to = NoInt,
                             !.earlier = Append(@, r.pc)]]
     /\ UNCHANGED <<books, next_id, books_finished, store, text_cache, tmp_files,
                    query, n_queries, reply, fn, users, auth>>

\* ------------------------------------------------------------ delete_book
\* delete_object on file_key, then on text_key, then db.delete and db.commit.
\* An exception on the way leaves what was done before it: db.rollback()
\* undoes nothing in the bucket. `fails_at` is the call that raises, if any.
DeleteSteps == {"file", "text", "db", "none"}

delete_book(book_id, user_id, fails_at) ==
  /\ book_id \in DOMAIN books
  /\ books[book_id].user_id = user_id
  /\ LET book == books[book_id]
         after_file == IF TruthyStr(book.file_key) THEN Remove(store, book.file_key) ELSE store
         after_text == IF TruthyStr(book.text_key) THEN Remove(after_file, book.text_key)
                       ELSE after_file
     IN CASE fails_at = "file" -> UNCHANGED <<store, books>>
          [] fails_at = "text" -> store' = after_file /\ UNCHANGED books
          [] fails_at = "db"   -> store' = after_text /\ UNCHANGED books
          [] OTHER             -> store' = after_text /\ books' = Remove(books, book_id)
  /\ UNCHANGED <<next_id, books_finished, runs, text_cache, tmp_files, query, n_queries, reply, fn, users, auth>>

\* ------------------------------------------------------------ update_book
update_book(book_id, user_id, status, current_page) ==
  /\ book_id \in DOMAIN books
  /\ books[book_id].user_id = user_id
  /\ LET was_finished == books[book_id].status = FINISHED
         finishing == status = FINISHED /\ ~was_finished
     IN /\ finishing => books_finished[user_id] < MaxFinished
        /\ books' = [books EXCEPT ![book_id].status = status,
                                  ![book_id].current_page = Max(0, current_page)]
        /\ books_finished' = IF finishing
                             THEN [books_finished EXCEPT ![user_id] = @ + 1]
                             ELSE books_finished
  /\ UNCHANGED <<next_id, store, runs, text_cache, tmp_files, query, n_queries, reply, fn, users, auth>>

\* ------------------------------------------------------------- query_book
\* The handler is a coroutine too: query_book is its stretch up to the first
\* await, query_book_step each later one. Every exception raised inside its
\* try block, the HTTPExceptions of its own checks included, is caught by the
\* `except Exception` at its end.

\* --------------------------------------------------------------- get_book
\* round(num / den * 100, 1) for num >= 0 and den > 0, in tenths: the nearest
\* tenth, the even one of two equally near. (The program rounds the binary
\* floating-point quotient, which this does not follow.)
round1(num, den) ==
  LET a == num * 1000
      q == a \div den
      r == a % den
  IN IF 2 * r > den THEN q + 1
     ELSE IF 2 * r = den THEN q + (q % 2)
     ELSE q

\* get_book: the row is looked up, given its reading_progress and returned. The
\* session is closed without a commit, so the stored row keeps its metadata.
\* `None > 0` is a TypeError, which no handler catches: status 500.
get_book(book_id, user_id) ==
  LET found == book_id \in DOMAIN books /\ books[book_id].user_id = user_id
      book == books[book_id]
  IN /\ reply' =
          IF ~found
          THEN [pc |-> "done", book_id |-> book_id, status |-> 404,
                detail |-> "Book not found or you don't have permission to access it",
                book_metadata |-> EmptyDict]
          ELSE IF book.total_pages = NoInt
          THEN [pc |-> "done", book_id |-> book_id, status |-> 500,
                detail |-> "Internal Server Error", book_metadata |-> EmptyDict]
          ELSE [pc |-> "done", book_id |-> book_id, status |-> 200, detail |-> "OK",
                book_metadata |->
                  IF book.total_pages[1] > 0
                  THEN Put(book.book_metadata, "reading_progress",
                           round1(book.current_page, book.total_pages[1]))
                  ELSE book.book_metadata]
     /\ UNCHANGED <<books, next_id, books_finished, store, runs, text_cache, tmp_files,
                    query, n_queries, fn, users, auth>>

\* A handler that hands the exception it caught to the caller
query_failed_leaks(q, error) ==
  [pc |-> "done", book_id |-> q.book_id, user_id |-> q.user_id,
   no_spoilers |-> q.no_spoilers, found |-> q.found, book |-> q.book,
   reads |-> q.reads, error |-> error,
   indices |-> <<>>, distances |-> <<>>,
   status |-> 500, detail |-> error,
   response |-> None, chunks |-> <<>>]

\* except Exception as e: logger.error(...);
\* raise HTTPException(status_code=500, detail="Failed to process query").
\* `error` is the exception caught, which only the log shows; `indices` and
\* `distances` are what the search had returned, if it had run.
query_failed(q, error) ==
  [pc |-> "done", book_id |-> q.book_id, user_id |-> q.user_id,
   no_spoilers |-> q.no_spoilers, found |-> q.found, book |-> q.book,
   reads |-> q.reads, error |-> error,
   indices |-> IF "indices" \in q.bound THEN q.indices ELSE <<>>,
   distances |-> IF "distances" \in q.bound THEN q.distances ELSE <<>>,
   status |-> 500, detail |-> "Failed to process query",
   response |-> None, chunks |-> <<>>]

\* return {"response": response, "chunks": [...]}
query_returned(q, response, results) ==
  [pc |-> "done", book_id |-> q.book_id, user_id |-> q.user_id,
   no_spoilers |-> q.no_spoilers, found |-> q.found, book |-> q.book,
   reads |-> q.reads, error |-> "none",
   indices |-> q.indices, distances |-> q.distances,
   status |-> 200, detail |-> "OK",
   response |-> response, chunks |-> results]

\* book.book_metadata.get("extracted")
Extracted(book) ==
  "extracted" \in DOMAIN book.book_metadata /\ book.book_metadata["extracted"]

\* download_fileobj_from_s3: ClientError when the bucket fails or has no such key
Downloadable(key, s3_ok) == s3_ok /\ key \in DOMAIN store

\* int(x / y * n) of ints, y # 0: the quotient, truncated towards zero. (The
\* program computes it in floating point, which this does not follow.)
Abs(a) == IF a < 0 THEN 0 - a ELSE a
TruncDiv(a, b) ==
  IF (a < 0) = (b < 0) THEN Abs(a) \div Abs(b) ELSE 0 - (Abs(a) \div Abs(b))

\* chunks[i] of a Python list: IndexError out of range, negative i from the end
InRange(list, i) == i < Len(list) /\ i >= 0 - Len(list)
Item(list, i) == IF i >= 0 THEN list[i + 1] ELSE list[Len(list) + i + 1]

\* What index.search(query_vector, k) may return: k labels and distances, the
\* distances non-decreasing, the labels distinct rows of the index, and -1 in
\* the places past its last row. Distances come from 0..MaxDistance.
MaxDistance == 1
SearchResults(index, k) ==
  LET n == Len(index.vectors)
      Labels == [1..k -> (0..(n - 1)) \cup {-1}]
      Dists == [1..k -> 0..MaxDistance]
  IN {[indices |-> ls, distances |-> ds] : ls \in
        {l \in Labels :
           /\ \A i \in 1..k : (l[i] = -1) <=> (i > n)
           /\ \A i, j \in 1..k : (i # j /\ l[i] # -1) => l[i] # l[j]},
      ds \in {d \in Dists : \A i \in 1..(k - 1) : d[i] <= d[i + 1]}}

\* if no_spoilers and book.current_page and book.total_pages:
\*     current_chunk = int((book.current_page / book.total_pages) * len(chunks))
\*     relevant_chunks = [chunk for i, chunk in enumerate(relevant_chunks)
\*                        if indices[0][i] <= current_chunk]
spoiler_filter(relevant_chunks, indices, no_spoilers, book, chunks) ==
  IF no_spoilers /\ book.current_page # 0 /\ TruthyInt(book.total_pages)
  THEN LET current_chunk ==
             TruncDiv(book.current_page * Len(chunks), book.total_pages[1])
           Keep(i) == indices[i] <= current_chunk
           kept == SelectSeq([i \in 1..Len(relevant_chunks) |-> i], Keep)
       IN [j \in 1..Len(kept) |-> relevant_chunks[kept[j]]]
  ELSE relevant_chunks

\* [QueryResult(text=chunk, similarity_score=float(distances[0][i]),
\*              chunk_index=int(indices[0][i]))
\*  for i, chunk in enumerate(relevant_chunks)]
query_results(relevant_chunks, distances, indices) ==
  [i \in 1..Len(relevant_chunks) |->
     [text |-> relevant_chunks[i],
      similarity_score |-> distances[i],
      chunk_index |-> indices[i]]]

\* query_book up to `await download_fileobj_from_s3(..., vectorizer_key)`
query_book(book_id, user_id, query_text, no_spoilers) ==
  LET found == book_id \in DOMAIN books /\ books[book_id].user_id = user_id
      q == [pc |-> "vectorizer", book_id |-> book_id, user_id |-> user_id,
            query |-> query_text, no_spoilers |-> no_spoilers,
            found |-> found, book |-> IF found THEN books[book_id] ELSE None,
            reads |-> {}, bound |-> {},
            vectorizer |-> Unbound, query_vector |-> Unbound, index |-> Unbound,
            chunks |-> Unbound, distances |-> Unbound, indices |-> Unbound,
            relevant_chunks |-> Unbound]
  IN /\ query.pc \in {"idle", "done"}
     /\ n_queries < MaxQueries
     /\ n_queries' = n_queries + 1
     /\ query' = IF ~found THEN query_failed(q, "HTTPException 404")
                 ELSE IF ~Extracted(q.book) THEN query_failed(q, "HTTPException 400")
                 ELSE q
     /\ UNCHANGED <<books, next_id, books_finished, store, runs, text_cache, tmp_files,
                    reply, fn, users, auth>>

\* The rest of query_book, one await at a time. `env_ok` is whether the call
\* awaited (the bucket, the completion service) succeeds.
query_book_step(env_ok) ==
  LET q == query
      meta == q.book.book_metadata
  IN /\ q.pc \in {"vectorizer", "index", "chunks", "answer"}
     /\ CASE q.pc = "vectorizer" ->
               \* vectorizer = pickle.loads(...); query_vector = vectorizer.transform([query])
               LET key == meta["vectorizer_key"]
                   q1 == [q EXCEPT !.reads = @ \cup {key}]
               IN query' =
                    IF ~Downloadable(key, env_ok) THEN query_failed(q1, "ClientError")
                    ELSE IF store[key].format # "pickle"
                    THEN query_failed(q1, "UnpicklingError")
                    ELSE IF "vocabulary" \notin DOMAIN store[key].data
                    THEN query_failed(q1, "AttributeError")
                    ELSE [q1 EXCEPT !.pc = "index",
                                    !.bound = @ \cup {"vectorizer", "query_vector"},
                                    !.vectorizer = store[key].data,
                                    !.query_vector = transform(store[key].data, q.query)]
          [] q.pc = "index" ->
               \* index = faiss.read_index(...); k = min(5, len(chunks));
               \* distances, indices = index.search(query_vector, k)
               LET key == meta["index_key"]
                   q1 == [q EXCEPT !.reads = @ \cup {key}]
               IN IF ~Downloadable(key, env_ok)
                  THEN query' = query_failed(q1, "ClientError")
                  ELSE IF store[key].format # "faiss"
                  THEN query' = query_failed(q1, "RuntimeError")
                  ELSE IF "chunks" \notin q.bound
                  THEN query' = query_failed(q1, "UnboundLocalError")
                  ELSE IF store[key].data.d # Cardinality(DOMAIN q.query_vector)
                  THEN query' = query_failed(q1, "AssertionError")
                  ELSE \E found \in SearchResults(store[key].data, Min(top_k, Len(q.chunks))) :
                         query' = [q1 EXCEPT !.pc = "chunks",
                                             !.bound = @ \cup {"index", "distances", "indices"},
                                             !.index = store[key].data,
                                             !.distances = found.distances,
                                             !.indices = found.indices]
          [] q.pc = "chunks" ->
               \* chunks = pickle.loads(...); relevant_chunks = [chunks[i] for i in indices[0]];
               \* the spoiler filter
               LET key == meta["chunks_key"]
                   q1 == [q EXCEPT !.reads = @ \cup {key}]
               IN query' =
                    IF ~Downloadable(key, env_ok) THEN query_failed(q1, "ClientError")
                    ELSE IF store[key].format # "pickle"
                    THEN query_failed(q1, "UnpicklingError")
                    ELSE LET chunks == store[key].data
                             relevant_chunks ==
                               [i \in 1..Len(q.indices) |-> Item(chunks, q.indices[i])]
                         IN IF \E i \in 1..Len(q.indices) : ~InRange(chunks, q.indices[i])
                            THEN query_failed(q1, "IndexError")
                            ELSE [q1 EXCEPT !.pc = "answer",
                                            !.bound = @ \cup {"chunks", "relevant_chunks"},
                                            !.chunks = chunks,
                                            !.relevant_chunks =
                                               spoiler_filter(relevant_chunks, q.indices,
                                                              q.no_spoilers, q.book, chunks)]
          [] OTHER ->
               \* response = await generate_chat_answer(...); return {...}
               query' =
                 IF ~env_ok THEN query_failed(q, "APIError")
                 ELSE IF Len(q.relevant_chunks) > Len(q.indices)
                 THEN query_failed(q, "IndexError")
                 ELSE query_returned(q, "answer",
                                     query_results(q.relevant_chunks, q.distances, q.indices))
     /\ UNCHANGED <<books, next_id, books_finished, store, runs, text_cache, tmp_files,
                    n_queries, reply, fn, users, auth>>

\* --------------------------------------------------------- specifications
F_a_pdf == <<"a">> \o S_pdf
F_a_epub == <<"a">> \o S_epub
U1 == <<"1">>
U2 == <<"2">>
Q_zz == <<"z", "z">>

RunIds == 1..Len(runs)

\* The uploads of Spec: one user's files of one base name, and another user's
UploadInputs ==
  {[user_id |-> U1, filename |-> F_a_pdf, content |-> "pA"],
   [user_id |-> U1, filename |-> F_a_pdf, content |-> "pB"],
   [user_id |-> U1, filename |-> F_a_epub, content |-> "eA"],
   [user_id |-> U1, filename |-> F_a_pdf, content |-> "bad"],
   [user_id |-> U2, filename |-> F_a_pdf, content |-> "pA"],
   [user_id |-> U2, filename |-> F_a_epub, content |-> "eA"]}

\* Two users' uploads, their pipelines and deletions, in every interleaving,
\* with a bucket and a database that do not fail.
Next ==
  \/ \E f \in UploadInputs :
       Len(runs) < MaxBooks /\ upload_book(f.user_id, f.filename, f.content, <<>>)
  \/ \E i \in RunIds : upload_book_add(i, TRUE)
  \/ \E i \in RunIds : pb_raw(i, TRUE)
  \/ \E i \in RunIds : pb_extract(i)
  \/ \E i \in RunIds : pb_index(i, TRUE)
  \/ \E i \in RunIds : pb_vectorizer(i, TRUE)
  \/ \E i \in RunIds : pb_chunks(i, TRUE)
  \/ \E i \in RunIds : pb_text(i, TRUE)
  \/ \E i \in RunIds : pb_commit(i, TRUE)
  \/ \E b \in DOMAIN books : delete_book(b, books[b].user_id, "none")

Spec == Init /\ [][Next]_vars

\* The uploads of SpecRun: one user's, with and without a page count given
RunInputs ==
  {[filename |-> F_a_pdf, content |-> "pA", total_pages |-> <<>>],
   [filename |-> F_a_pdf, content |-> "pA", total_pages |-> <<"3">>],
   [filename |-> F_a_pdf, content |-> "pA", total_pages |-> <<"0">>],
   [filename |-> F_a_epub, content |-> "eA", total_pages |-> <<>>],
   [filename |-> F_a_pdf, content |-> "bad", total_pages |-> <<>>],
   [filename |-> F_a_pdf, content |-> "pC", total_pages |-> <<>>],
   [filename |-> F_a_pdf, content |-> "pE", total_pages |-> <<>>]}

\* One user's uploads, their pipelines and deletions, with every failure of
\* the bucket and of the database.
NextRun ==
  \/ \E f \in RunInputs :
       Len(runs) < MaxFewBooks /\ upload_book(U1, f.filename, f.content, f.total_pages)
  \/ \E i \in RunIds, ok \in BOOLEAN : upload_book_add(i, ok)
  \/ \E i \in RunIds, ok \in BOOLEAN : pb_raw(i, ok)
  \/ \E i \in RunIds : pb_extract(i)
  \/ \E i \in RunIds, ok \in BOOLEAN : pb_index(i, ok)
  \/ \E i \in RunIds, ok \in BOOLEAN : pb_vectorizer(i, ok)
  \/ \E i \in RunIds, ok \in BOOLEAN : pb_chunks(i, ok)
  \/ \E i \in RunIds, ok \in BOOLEAN : pb_text(i, ok)
  \/ \E i \in RunIds, ok \in BOOLEAN : pb_commit(i, ok)
  \/ \E b \in DOMAIN books, f \in DeleteSteps : delete_book(b, U1, f)

SpecRun == Init /\ [][NextRun]_vars

\* The uploads of SpecRetry
RetryInputs ==
  {[filename |-> F_a_pdf, content |-> "pA", total_pages |-> <<>>],
   [filename |-> F_a_pdf, content |-> "pA", total_pages |-> <<"3">>],
   [filename |-> F_a_epub, content |-> "eA", total_pages |-> <<>>]}

\* One user's uploads and their pipelines, with every failure of the bucket
\* and of the database, each pipeline called again after it has ended.
NextRetry ==
  \/ \E f \in RetryInputs :
       Len(runs) < MaxFewBooks /\ upload_book(U1, f.filename, f.content, f.total_pages)
  \/ \E i \in RunIds : upload_book_add(i, TRUE)
  \/ \E i \in RunIds, ok \in BOOLEAN : pb_raw(i, ok)
  \/ \E i \in RunIds : pb_extract(i)
  \/ \E i \in RunIds, ok \in BOOLEAN : pb_index(i, ok)
  \/ \E i \in RunIds, ok \in BOOLEAN : pb_vectorizer(i, ok)
  \/ \E i \in RunIds, ok \in BOOLEAN : pb_chunks(i, ok)
  \/ \E i \in RunIds, ok \in BOOLEAN : pb_text(i, ok)
  \/ \E i \in RunIds, ok \in BOOLEAN : pb_commit(i, ok)
  \/ \E i \in RunIds : retry_process_book(i)

SpecRetry == Init /\ [][NextRetry]_vars

\* The uploads of SpecWait
WaitInputs ==
  {[filename |-> F_a_pdf, content |-> "pA", total_pages |-> <<>>],
   [filename |-> F_a_epub, content |-> "eA", total_pages |-> <<>>],
   [filename |-> F_a_pdf, content |-> "bad", total_pages |-> <<>>]}

\* One user's uploads and their pipelines, with a bucket and a database that
\* do not fail and an extraction that takes any time
NextWait ==
  \/ \E f \in WaitInputs :
       Len(runs) < MaxFewBooks /\ upload_book(U1, f.filename, f.content, f.total_pages)
  \/ \E i \in RunIds : upload_book_add(i, TRUE)
  \/ \E i \in RunIds : pb_raw(i, TRUE)
  \/ \E i \in RunIds : pb_extract_wait(i)
  \/ \E i \in RunIds : pb_extract(i)
  \/ \E i \in RunIds : pb_index(i, TRUE)
  \/ \E i \in RunIds : pb_vectorizer(i, TRUE)
  \/ \E i \in RunIds : pb_chunks(i, TRUE)
  \/ \E i \in RunIds : pb_text(i, TRUE)
  \/ \E i \in RunIds : pb_commit(i, TRUE)

SpecWait == Init /\ [][NextWait]_vars

\* ------------------------------------------------------------------- auth
\* str.lower(), on the letters used here
LowerChar(ch) == IF ch = "A" THEN "a" ELSE IF ch = "B" THEN "b" ELSE ch
lower(e) == [k \in 1..Len(e) |-> LowerChar(e[k])]

\* pwd_context.hash(password) and pwd_context.verify(password, hash)
pwd_hash(password) == [bcrypt |-> password]
pwd_verify(password, password_hash) == password_hash.bcrypt = password

\* db.query(User).filter(User.email == email).first(): the rows whose email is
\* the string given, letter case included
ByEmail(us, email) == {k \in 1..Len(us) : us[k].email = email}

\* POST /auth/register. The row is stored with user.email.lower(); the column
\* is unique, so db.commit() raises IntegrityError when a row has that email,
\* and the handler does not catch it: the request ends with status 500.
register(email, password, name) ==
  /\ IF ByEmail(users, email) # {}
     THEN /\ auth' = [op |-> "register", email |-> email, status |-> 400,
                      detail |-> "Email already registered"]
          /\ users' = users
     ELSE IF ByEmail(users, lower(email)) # {}
     THEN /\ auth' = [op |-> "register", email |-> email, status |-> 500,
                      detail |-> "Internal Server Error"]
          /\ users' = users
     ELSE /\ auth' = [op |-> "register", email |-> email, status |-> 200,
                      detail |-> "User created"]
          /\ users' = Append(users, [email |-> lower(email),
                                     password_hash |-> pwd_hash(password),
                                     name |-> name])
  /\ UNCHANGED <<books, next_id, books_finished, store, runs, text_cache, tmp_files,
                 query, n_queries, reply, fn>>

\* POST /auth/login
login(email, password) ==
  LET found == ByEmail(users, lower(email))
  IN /\ auth' = IF found = {} \/ \A k \in found : ~pwd_verify(password, users[k].password_hash)
                THEN [op |-> "login", email |-> email, status |-> 401,
                      detail |-> "Invalid credentials"]
                ELSE [op |-> "login", email |-> email, status |-> 200,
                      detail |-> "bearer"]
     /\ UNCHANGED <<books, next_id, books_finished, store, runs, text_cache, tmp_files,
                    query, n_queries, reply, fn, users>>

\* The emails, passwords and names of the requests of SpecAuth
Emails == {<<"a", "@", "x">>, <<"A", "@", "x">>, <<"b", "@", "x">>, <<"B", "@", "x">>}
Passwords == {"p", "q"}
Names == {"n", "m"}

NextAuth ==
  \/ \E email \in Emails, password \in Passwords, name \in Names :
       register(email, password, name)
  \/ \E email \in Emails, password \in Passwords : login(email, password)

SpecAuth == Init /\ [][NextAuth]_vars

\* The uploads of SpecQ
QueryUploads ==
  {[filename |-> F_a_pdf, content |-> "pA", total_pages |-> <<>>],
   [filename |-> F_a_pdf, content |-> "pA", total_pages |-> <<"-", "3">>]}

\* One user's uploads, with a bucket and a database that do not fail during
\* the pipeline, the reader's progress, and queries, with every failure of
\* the bucket and of the completion service.
NextQ ==
  \/ \E f \in QueryUploads :
       Len(runs) < MaxFewBooks /\ upload_book(U1, f.filename, f.content, f.total_pages)
  \/ \E i \in RunIds : upload_book_add(i, TRUE)
  \/ \E i \in RunIds : pb_raw(i, TRUE)
  \/ \E i \in RunIds : pb_extract(i)
  \/ \E i \in RunIds : pb_index(i, TRUE)
  \/ \E i \in RunIds : pb_vectorizer(i, TRUE)
  \/ \E i \in RunIds : pb_chunks(i, TRUE)
  \/ \E i \in RunIds : pb_text(i, TRUE)
  \/ \E i \in RunIds : pb_commit(i, TRUE)
  \/ \E b \in DOMAIN books : update_book(b, U1, READING, 1)
  \/ \E b \in 1..MaxFewBooks, nsp \in BOOLEAN : query_book(b, U1, Q_zz, nsp)
  \/ \E ok \in BOOLEAN : query_book_step(ok)

SpecQ == Init /\ [][NextQ]_vars

\* ------------------------------------ extract_text: the parallel page batches
\* A PDF of n pages, page number k holding the text "k\n"
LongDocument(n) == [k \in 1..n |-> str(k - 1) \o <<"\n">>]

\* extract_page_text(page_num): pdf_document.load_page(page_num).get_text()
extract_page_text(pdf_document, page_num) == pdf_document[page_num + 1]

\* batch_size = min(10, page_count)
batch_size(page_count) == Min(10, page_count)

\* The orders in which the tasks of a batch of n pages may complete that are
\* tried here: in order, in reverse, the first task last, the first two swapped
CompletionOrders(n) ==
  {[k \in 1..n |-> k],
   [k \in 1..n |-> n + 1 - k],
   [k \in 1..n |-> IF k = n THEN 1 ELSE k + 1],
   [k \in 1..n |-> IF n >= 2 /\ k <= 2 THEN 3 - k ELSE k]}

\* A version of gather that returns the results as the tasks complete
gather_fifo(futures, completed) ==
  [k \in 1..Len(futures) |-> completed[k].result]

\* await asyncio.gather(*futures): once every future has completed, the list
\* of their results in the order of the arguments. `completed` lists the
\* futures (by position among the arguments) with their results in the order
\* in which they completed.
gather(futures, completed) ==
  [k \in 1..Len(futures) |->
     (CHOOSE c \in {completed[j] : j \in 1..Len(completed)} : c.future = k).result]

\* One turn of the loop `for i in range(0, page_count, batch_size)`: the tasks
\* of the batch run in the thread pool and complete in the order `order`; the
\* coroutine resumes with the results of gather. After the last batch,
\* text = "".join(text_parts).
extract_batch(order) ==
  LET pdf_document == fn.pdf_document
      page_count == Len(pdf_document)
      i == fn.i
      batch_end == Min(i + batch_size(page_count), page_count)
      futures == [k \in 1..(batch_end - i) |-> i + k - 1]
      completed == [j \in 1..Len(order) |->
                      [future |-> order[j],
                       result |-> extract_page_text(pdf_document, futures[order[j]])]]
      text_parts == fn.text_parts \o gather(futures, completed)
  IN /\ fn.pc = "batch"
     /\ order \in CompletionOrders(batch_end - i)
     /\ fn' = IF batch_end < page_count
              THEN [fn EXCEPT !.i = i + batch_size(page_count),
                              !.text_parts = text_parts,
                              !.completions = Append(@, order)]
              ELSE [pc |-> "done", f |-> "extract_text", pdf_document |-> pdf_document,
                    completions |-> Append(fn.completions, order),
                    text |-> join(<<>>, text_parts)]
     /\ UNCHANGED <<books, next_id, books_finished, store, runs, text_cache, tmp_files,
                    query, n_queries, reply, users, auth>>

\* extract_text on PDFs of more than ten pages, at the start of the loop over
\* the batches
InitExtract ==
  /\ InitService
  /\ fn \in {[pc |-> "batch", f |-> "extract_text", pdf_document |-> LongDocument(n),
              i |-> 0, text_parts |-> <<>>, completions |-> <<>>] : n \in 11..MaxPages}

NextExtract ==
  \E n \in 1..batch_size(MaxPages) : \E order \in CompletionOrders(n) : extract_batch(order)

SpecExtract == InitExtract /\ [][NextExtract]_vars

\* ----------------------------------------------- extract_text on its own
\* The file names and contents of the calls of SpecCache
CacheFilenames == {F_a_pdf, F_a_epub}
CacheContents == {"pA", "pD", "pE", "eA", "bad"}

\* text = await extract_text(BytesIO(content), filename), with the text_cache
\* the calls before it left. `n` counts the calls.
call_extract_text(filename, content) ==
  LET result == extract_text(text_cache, content, filename)
      n == IF fn.pc = "idle" THEN 0 ELSE fn.n
  IN /\ fn.pc \in {"idle", "returned"}
     /\ n < MaxCalls
     /\ fn' = [pc |-> "returned", f |-> "extract_text", n |-> n + 1,
               filename |-> filename, content |-> content,
               raised |-> result.raised, text |-> result.text,
               hit |-> cache_key(filename, content) \in DOMAIN text_cache]
     /\ text_cache' = result.cache
     /\ UNCHANGED <<books, next_id, books_finished, store, runs, tmp_files,
                    query, n_queries, reply, users, auth>>

NextCache ==
  \E filename \in CacheFilenames, content \in CacheContents :
    call_extract_text(filename, content)

SpecCache == Init /\ [][NextCache]_vars

\* ------------------------------------------------- chunk_text on its own
\* The characters of the texts of SpecChunk
Alphabet == {"a", "b", " ", "\n"}

Texts == UNION {[1..n -> Alphabet] : n \in 0..MaxLen}

\* chunks = chunk_text(text, chunk_size)
call_chunk_text ==
  /\ fn.pc = "called"
  /\ fn' = [pc |-> "done", f |-> "chunk_text", text |-> fn.text,
            chunk_size |-> fn.chunk_size,
            chunks |-> chunk_text(fn.text, fn.chunk_size)]
  /\ UNCHANGED <<books, next_id, books_finished, store, runs, text_cache, tmp_files,
                 query, n_queries, reply, users, auth>>

InitChunk ==
  /\ InitService
  /\ fn \in {[pc |-> "called", f |-> "chunk_text", text |-> t, chunk_size |-> n] :
               t \in Texts, n \in 1..MaxSize}

NextChunk == call_chunk_text

SpecChunk == InitChunk /\ [][NextChunk]_vars

\* The uploads of SpecRead
ReadUploads ==
  {[filename |-> F_a_pdf, content |-> "pA", total_pages |-> <<>>],
   [filename |-> F_a_epub, content |-> "eA", total_pages |-> <<"3">>]}

\* One user's uploads, with a bucket and a database that do not fail, and the
\* reader's requests on the books: progress updates and reads of the record.
NextRead ==
  \/ \E f \in ReadUploads :
       Len(runs) < MaxFewBooks /\ upload_book(U1, f.filename, f.content, f.total_pages)
  \/ \E i \in RunIds : upload_book_add(i, TRUE)
  \/ \E i \in RunIds : pb_raw(i, TRUE)
  \/ \E i \in RunIds : pb_extract(i)
  \/ \E i \in RunIds : pb_index(i, TRUE)
  \/ \E i \in RunIds : pb_vectorizer(i, TRUE)
  \/ \E i \in RunIds : pb_chunks(i, TRUE)
  \/ \E i \in RunIds : pb_text(i, TRUE)
  \/ \E i \in RunIds : pb_commit(i, TRUE)
  \/ \E b \in DOMAIN books, s \in {UNREAD, READING} : update_book(b, U1, s, 1)
  \/ \E b \in 1..MaxFewBooks : get_book(b, U1)

SpecRead == Init /\ [][NextRead]_vars

\* ------------------------------------------------------------------ claims
\* The books a run is about: the rows of its user with its file key
BooksOf(bks, r) == ByFileKey(bks, r.user_id, r.file_key)

\* No other run has the run's user and file key
SoleRun(rs, i) ==
  \A j \in DOMAIN rs :
    (rs[j].user_id = rs[i].user_id /\ rs[j].file_key = rs[i].file_key) => j = i

\* C1: a step of process_book that raises ends the run there (a failed run
\* takes no further step) and changes no book row; and the book of a failed
\* run, if no other run is about it, has the metadata and the status it was
\* created with: empty metadata, PROCESSING.
C1_FailureLeavesBook ==
  [][/\ \A i \in DOMAIN runs :
          /\ (runs[i].pc # "failed" /\ runs'[i].pc = "failed") => books' = books
          /\ runs[i].pc = "failed" => runs'[i] = runs[i]
     /\ \A i \in DOMAIN runs' :
          (runs'[i].pc = "failed" /\ SoleRun(runs', i)) =>
            \A b \in BooksOf(books', runs'[i]) :
              /\ books'[b].book_metadata = EmptyDict
              /\ books'[b].status = PROCESSING]_vars

\* A run that failed at its last upload: the artifacts uploaded before it are
\* in the bucket, and its book is still PROCESSING with empty metadata.
C1_Witness ==
  \E i \in DOMAIN runs :
    /\ runs[i].pc = "failed" /\ runs[i].failed_at = "text"
    /\ {index_key_of(runs[i].user_id, runs[i].filename),
        vectorizer_key_of(runs[i].user_id, runs[i].filename),
        chunks_key_of(runs[i].user_id, runs[i].filename)} \subseteq DOMAIN store
    /\ \E b \in BooksOf(books, runs[i]) :
         books[b].book_metadata = EmptyDict /\ books[b].status = PROCESSING

\* The keys a book record names
RecordKeys(book) ==
  {book.file_key, book.text_key} \cup
  (IF Extracted(book)
   THEN {book.book_metadata["index_key"], book.book_metadata["vectorizer_key"],
         book.book_metadata["chunks_key"]}
   ELSE {})

\* Every upload so far was given a file key of its own
OwnFileKeys == \A i \in DOMAIN runs : SoleRun(runs, i)

\* C2: every book record with extracted=true has its raw file, its text, its
\* index, its vectorizer and its chunk list in the bucket under the keys the
\* record names. (Stated for the behaviours in which every upload was given a
\* file key of its own, which two overlapping uploads of one name are not.)
C2_ExtractedHasArtifacts ==
  OwnFileKeys =>
    \A b \in DOMAIN books :
      Extracted(books[b]) => RecordKeys(books[b]) \subseteq DOMAIN store

\* C3: for every book with extracted=true whose artifacts are in the bucket,
\* the chunk list, the vectors of the index and num_chunks have one count, and
\* vector i of the index is the vector of chunk i under the book's vectorizer.
\* (Stated, as C2, for uploads with file keys of their own.)
C3_ArtifactsAligned ==
  \A b \in DOMAIN books :
    (OwnFileKeys /\ Extracted(books[b]) /\ RecordKeys(books[b]) \subseteq DOMAIN store) =>
      LET meta == books[b].book_metadata
          chunks == store[meta["chunks_key"]].data
          index == store[meta["index_key"]].data
          vectorizer == store[meta["vectorizer_key"]].data
      IN /\ Len(chunks) = meta["num_chunks"]
         /\ Len(index.vectors) = meta["num_chunks"]
         /\ \A i \in 1..Len(chunks) : index.vectors[i] = transform(vectorizer, chunks[i])

\* The keys a book's artifacts other than its raw file are kept under
DerivedKeys(book) == RecordKeys(book) \ {book.file_key}

\* C4: the index, vectorizer, chunk-list and text keys of two distinct book
\* records are all different. (Stated, as C2, for uploads with file keys of
\* their own.)
C4_KeysDisjoint ==
  \A b1, b2 \in DOMAIN books :
    (OwnFileKeys /\ b1 # b2) => DerivedKeys(books[b1]) \cap DerivedKeys(books[b2]) = {}

\* The exceptions of an artifact that cannot be loaded or deserialized, and of
\* a completion call that fails
LoadErrors == {"ClientError", "UnpicklingError", "AttributeError", "RuntimeError"}
ServiceErrors == {"APIError"}

\* A finished query on a book of the caller with extracted=true, in which
\* every artifact was loaded and the completion call did not fail
Answerable ==
  /\ query.pc = "done"
  /\ query.found
  /\ Extracted(query.book)
  /\ query.error \notin LoadErrors \cup ServiceErrors

\* if no_spoilers and current_page and total_pages, for positive values
FilterApplies ==
  /\ query.no_spoilers
  /\ query.book.current_page > 0
  /\ TruthyInt(query.book.total_pages) /\ query.book.total_pages[1] > 0

\* The chunk list of the book of the finished query, as the bucket has it
BookChunks == store[query.book.book_metadata["chunks_key"]].data

\* C5: a query on an extracted book of the caller whose artifacts load and
\* whose completion call succeeds returns successfully, with the response
\* text and at most min(5, chunk count) evidence entries.
C5_QueryAnswers ==
  Answerable =>
    /\ query.status = 200
    /\ query.response # None
    /\ Len(query.chunks) <= Min(top_k, query.book.book_metadata["num_chunks"])

\* C6: such a query returns evidence whose every entry has the text of the
\* chunk at its chunk_index and, as its score, the distance the search
\* reported for that chunk_index.
C6_EvidenceConsistent ==
  Answerable =>
    /\ query.status = 200
    /\ \A e \in 1..Len(query.chunks) :
         /\ InRange(BookChunks, query.chunks[e].chunk_index)
         /\ query.chunks[e].text = Item(BookChunks, query.chunks[e].chunk_index)
         /\ \E r \in 1..Len(query.indices) :
              /\ query.indices[r] = query.chunks[e].chunk_index
              /\ query.distances[r] = query.chunks[e].similarity_score

\* C7: when the spoiler filter applies, such a query returns as evidence
\* exactly the retrieved chunks whose index is at most
\* floor(current_page * chunk_count / total_pages), in their rank order.
C7_SpoilerBoundary ==
  (Answerable /\ FilterApplies) =>
    LET boundary == (query.book.current_page * Len(BookChunks))
                      \div query.book.total_pages[1]
        AtMost(i) == i <= boundary
        kept == SelectSeq(query.indices, AtMost)
    IN /\ query.status = 200
       /\ Len(query.chunks) = Len(kept)
       /\ \A e \in 1..Len(kept) : query.chunks[e].text = Item(BookChunks, kept[e])

\* C8: when the spoiler filter does not apply (no_spoilers false, or
\* current_page or total_pages zero, negative or unset), such a query returns
\* every retrieved chunk as evidence.
C8_OnlyFilterDrops ==
  (Answerable /\ ~FilterApplies) =>
    /\ query.status = 200
    /\ Len(query.chunks) = Len(query.indices)
    /\ \A e \in 1..Len(query.chunks) :
         query.chunks[e].text = Item(BookChunks, query.indices[e])

\* What the caller gets of a generic query failure
GenericFailure == [status |-> 500, detail |-> "Failed to process query"]

\* C9: a query on a book of the caller without extracted=true ends in an
\* error of its own, which is not the generic query failure, and has read
\* nothing from the bucket.
C9_NotIndexed ==
  (query.pc = "done" /\ query.found /\ ~Extracted(query.book)) =>
    /\ [status |-> query.status, detail |-> query.detail] # GenericFailure
    /\ query.reads = {}

\* C10: a query that ends because an artifact could not be loaded or
\* deserialized, or because the completion call failed, gives the caller the
\* generic query failure, whatever the exception was, with no response text
\* and no evidence, and the step that ends it changes no book row and no
\* object of the bucket.
C10_QueryFailureOpaque ==
  [][(query.pc # "done" /\ query'.pc = "done"
        /\ query'.error \in LoadErrors \cup ServiceErrors) =>
       /\ [status |-> query'.status, detail |-> query'.detail] = GenericFailure
       /\ query'.response = None
       /\ query'.chunks = <<>>
       /\ books' = books
       /\ store' = store]_vars

\* A query that loaded the vectorizer of an extracted book and failed to load
\* its index
C10_Witness ==
  /\ query.pc = "done"
  /\ query.found
  /\ Extracted(query.book)
  /\ query.error = "ClientError"
  /\ query.reads = {query.book.book_metadata["vectorizer_key"],
                    query.book.book_metadata["index_key"]}
  /\ query.status = 500

\* C11: a book with status UNREAD has extracted=true, the status of a book
\* leaving PROCESSING only when process_book commits its metadata.
C11_UnreadIsExtracted ==
  \A b \in DOMAIN books : books[b].status = UNREAD => Extracted(books[b])

\* The fields process_book sets in one commit
MetadataFields == {"extracted", "index_key", "vectorizer_key", "chunks_key", "num_chunks"}

\* C12: the metadata of a book changes at most once: from empty to the five
\* fields extracted, index_key, vectorizer_key, chunks_key and num_chunks, in
\* the step in which a process_book run commits to the book; no other step
\* changes it.
C12_MetadataWrittenOnce ==
  [][\A b \in (DOMAIN books) \cap (DOMAIN books') :
       books'[b].book_metadata # books[b].book_metadata =>
         /\ books[b].book_metadata = EmptyDict
         /\ DOMAIN books'[b].book_metadata = MetadataFields
         /\ books'[b].book_metadata["extracted"]
         /\ \E i \in DOMAIN runs :
              /\ runs[i].pc = "commit"
              /\ runs'[i].pc = "done"
              /\ runs'[i].committed_to = Some(b)]_vars

\* The keys under which a run stores the artifacts of its book
ArtifactKeysOf(r) ==
  {r.file_key, r.text_key,
   index_key_of(r.user_id, r.filename),
   vectorizer_key_of(r.user_id, r.filename),
   chunks_key_of(r.user_id, r.filename)}

\* C13: once the book a run committed to has been deleted, none of the
\* artifacts the run stored for it is in the bucket. (Stated for a book whose
\* keys no other upload uses.)
C13_DeleteRemovesArtifacts ==
  \A i \in DOMAIN runs :
    (/\ runs[i].pc = "done"
     /\ runs[i].committed_to # NoInt
     /\ runs[i].committed_to[1] \notin DOMAIN books
     /\ \A j \in DOMAIN runs :
          j # i => ArtifactKeysOf(runs[j]) \cap ArtifactKeysOf(runs[i]) = {})
    => ArtifactKeysOf(runs[i]) \cap DOMAIN store = {}

\* C14: no two book records of one user have the same file_key, after any
\* interleaving of upload_book requests.
C14_FileKeysUnique ==
  \A b1, b2 \in DOMAIN books :
    (b1 # b2 /\ books[b1].user_id = books[b2].user_id) =>
      books[b1].file_key # books[b2].file_key

\* What a run does when it runs alone, on an empty cache, with a bucket and a
\* database that do not fail: whether it fails, and what it stores
Alone(r) ==
  LET extracted == extract_text(EmptyDict, r.file_content, r.filename)
      detected == detect_pages(r.file_content, r.filename)
      failed == extracted.raised \/ detected.raised \/ Indexed[extracted.text].fitted.raised
  IN [failed |-> failed,
      index |-> IF failed THEN None ELSE FaissObject(Indexed[extracted.text].index),
      vectorizer |-> IF failed THEN None
                     ELSE PickleObject(Indexed[extracted.text].fitted.vectorizer),
      chunks |-> IF failed THEN None ELSE PickleObject(Indexed[extracted.text].chunks),
      text |-> IF failed THEN None ELSE TextObject(extracted.text)]

\* C15: with a bucket and a database that do not fail, a run interleaved with
\* the run of another book ends as it would alone: it fails only if it would
\* alone, and once it has committed to its book, the index, the vectorizer,
\* the chunk list and the text in the bucket under its keys are the ones it
\* would have stored alone. (Stated for uploads with file keys of their own,
\* and for a book that has not been deleted.)
C15_RunsIndependent ==
  \A i \in DOMAIN runs :
    LET r == runs[i]
    IN OwnFileKeys =>
         /\ r.pc = "failed" => Alone(r).failed
         /\ (r.pc = "done" /\ r.committed_to # NoInt /\ r.committed_to[1] \in DOMAIN books) =>
              /\ ~Alone(r).failed
              /\ ArtifactKeysOf(r) \subseteq DOMAIN store
              /\ store[index_key_of(r.user_id, r.filename)] = Alone(r).index
              /\ store[vectorizer_key_of(r.user_id, r.filename)] = Alone(r).vectorizer
              /\ store[chunks_key_of(r.user_id, r.filename)] = Alone(r).chunks
              /\ store[r.text_key] = Alone(r).text

\* C16: whatever order the page tasks of each batch complete in, the parts
\* collected so far are the texts of the first pages in page order, and the
\* text returned is the concatenation of the texts of all pages in page order.
C16_PageOrder ==
  /\ (fn.pc = "batch") => fn.text_parts = SubSeq(fn.pdf_document, 1, fn.i)
  /\ (fn.pc = "done" /\ fn.f = "extract_text") => fn.text = join(<<>>, fn.pdf_document)

\* A text returned for a PDF of three batches, no batch of which completed in
\* page order
C16_Witness ==
  /\ fn.pc = "done" /\ fn.f = "extract_text"
  /\ Len(fn.completions) = 3
  /\ \A b \in 1..3 :
       Len(fn.completions[b]) >= 2 /\ fn.completions[b][1] # 1

\* The words of the chunks, in index order
RECURSIVE WordsOf(_, _)
WordsOf(chunks, c) ==
  IF c > Len(chunks) THEN <<>> ELSE split(chunks[c]) \o WordsOf(chunks, c + 1)

ChunkCall == fn.pc = "done" /\ fn.f = "chunk_text"

\* C17: for any text and any chunk size >= 1, the words of the chunks of
\* chunk_text(text, size), taken chunk by chunk in index order, are exactly
\* the whitespace-delimited words of the text.
C17_ChunksKeepWords ==
  ChunkCall => WordsOf(fn.chunks, 1) = split(fn.text)

\* Several chunks from a text whose whitespace is not single blanks between words
C17_Witness ==
  /\ ChunkCall
  /\ Len(fn.chunks) >= 2
  /\ join(<<" ">>, fn.chunks) # fn.text
  /\ fn.chunk_size >= 2

\* C18: for a text of w words, chunk_text(text, n) returns ceil(w/n) chunks;
\* every chunk but the last has exactly n words, the last has between 1 and n
\* words, and a text without words gives the empty list.
C18_ChunkSizes ==
  ChunkCall =>
    LET w == Len(split(fn.text))
        n == fn.chunk_size
        chunks == fn.chunks
    IN /\ Len(chunks) * n >= w
       /\ (Len(chunks) - 1) * n < w \/ (w = 0 /\ chunks = <<>>)
       /\ \A c \in 1..(Len(chunks) - 1) : Len(split(chunks[c])) = n
       /\ chunks # <<>> =>
            /\ Len(split(chunks[Len(chunks)])) >= 1
            /\ Len(split(chunks[Len(chunks)])) <= n

\* A text whose last chunk is shorter than the others
C18_Witness ==
  /\ ChunkCall
  /\ Len(fn.chunks) >= 2
  /\ Len(split(fn.chunks[Len(fn.chunks)])) < fn.chunk_size

\* The chunk list process_book computes for the upload of a task
ChunksOf(r) ==
  Indexed[extract_text(EmptyDict, r.file_content, r.filename).text].chunks

\* C19: index construction fails only when the chunk list is empty, and a book
\* whose text gives no chunk is never committed with extracted = true.
C19_FitFailsIffNoChunks ==
  /\ \A i \in DOMAIN runs :
       (runs[i].pc = "failed" /\ runs[i].failed_at = "fit") => ChunksOf(runs[i]) = <<>>
  /\ \A i \in DOMAIN runs :
       (runs[i].pc = "done" /\ runs[i].committed_to # NoInt) => ChunksOf(runs[i]) # <<>>

\* C20: the commit of process_book sets the row's total_pages to the detected
\* page count if a page count was detected and the task was given no
\* total_pages or zero, leaves it as it was otherwise, and sets the status to
\* UNREAD.
C20_CommitTotalPages ==
  [][\A i \in (DOMAIN runs) \cap (DOMAIN runs') :
       (runs[i].pc = "commit" /\ runs'[i].pc = "done" /\ runs'[i].committed_to # NoInt) =>
         LET r == runs[i]
             b == runs'[i].committed_to[1]
             inferred == /\ r.detected_pages # NoInt
                         /\ r.detected_pages[1] # 0
                         /\ r.total_pages \in {NoInt, Some(0)}
         IN /\ books'[b].status = UNREAD
            /\ inferred => books'[b].total_pages = r.detected_pages
            /\ ~inferred => books'[b].total_pages = books[b].total_pages]_vars

\* A committed one-page PDF uploaded with total_pages = 0: the row holds the
\* detected count
C20_Witness ==
  \E i \in DOMAIN runs :
    /\ runs[i].pc = "done" /\ runs[i].committed_to # NoInt
    /\ runs[i].committed_to[1] \in DOMAIN books
    /\ runs[i].total_pages = Some(0)
    /\ books[runs[i].committed_to[1]].total_pages = Some(1)
    /\ books[runs[i].committed_to[1]].status = UNREAD

\* C21: a query that can be answered obtains a ranked list from the index
\* search that is sorted by non-decreasing distance, the lower chunk index
\* first among equal distances.
C21_RankedByDistance ==
  Answerable =>
    /\ query.status = 200
    /\ \A i, j \in 1..Len(query.indices) :
         i < j =>
           \/ query.distances[i] < query.distances[j]
           \/ /\ query.distances[i] = query.distances[j]
              /\ query.indices[i] < query.indices[j]

\* The row a single successful run of the task leaves, from the row the upload
\* created
SingleRunRow(r) ==
  [total_pages |-> IF detect_pages(r.file_content, r.filename).value \notin {NoInt, Some(0)}
                      /\ r.total_pages \in {NoInt, Some(0)}
                   THEN detect_pages(r.file_content, r.filename).value
                   ELSE r.total_pages,
   book_metadata |-> [extracted |-> TRUE,
                      index_key |-> index_key_of(r.user_id, r.filename),
                      vectorizer_key |-> vectorizer_key_of(r.user_id, r.filename),
                      chunks_key |-> chunks_key_of(r.user_id, r.filename),
                      num_chunks |-> Len(ChunksOf(r))]]

\* No other upload uses a key of the task
KeysOfItsOwn(i) ==
  \A j \in DOMAIN runs :
    j # i => ArtifactKeysOf(runs[j]) \cap ArtifactKeysOf(runs[i]) = {}

\* C22: process_book called again with the same arguments, after a call that
\* committed or failed at any step, writes under the keys of the first call
\* only, and once a call has committed, the book's metadata and total_pages
\* and the five stored artifacts are those of a single successful run.
\* (Stated for a task whose keys no other upload uses.)
C22_RetryIdempotent ==
  \A i \in DOMAIN runs :
    LET r == runs[i]
    IN KeysOfItsOwn(i) =>
         /\ r.file_key \in DOMAIN store => store[r.file_key] = RawObject(r.file_content)
         /\ index_key_of(r.user_id, r.filename) \in DOMAIN store =>
              store[index_key_of(r.user_id, r.filename)] = Alone(r).index
         /\ vectorizer_key_of(r.user_id, r.filename) \in DOMAIN store =>
              store[vectorizer_key_of(r.user_id, r.filename)] = Alone(r).vectorizer
         /\ chunks_key_of(r.user_id, r.filename) \in DOMAIN store =>
              store[chunks_key_of(r.user_id, r.filename)] = Alone(r).chunks
         /\ r.text_key \in DOMAIN store => store[r.text_key] = Alone(r).text
         /\ (r.pc = "done" /\ r.committed_to # NoInt) =>
              /\ books[r.committed_to[1]].total_pages = SingleRunRow(r).total_pages
              /\ books[r.committed_to[1]].book_metadata = SingleRunRow(r).book_metadata
              /\ ArtifactKeysOf(r) \subseteq DOMAIN store

\* A second call that committed, after a first call that committed
C22_Witness ==
  \E i \in DOMAIN runs :
    /\ runs[i].pc = "done" /\ runs[i].committed_to # NoInt
    /\ runs[i].earlier = <<"done">>
    /\ Extracted(books[runs[i].committed_to[1]])

\* C23: every call of extract_text returns (or raises) what an extraction of
\* its own file name and content with an empty cache would, whether the cache
\* of the calls before it hits or misses.
C23_CacheTransparent ==
  (fn.pc = "returned" /\ fn.f = "extract_text") =>
    LET fresh == extract_text(EmptyDict, fn.content, fn.filename)
    IN /\ fn.raised = fresh.raised
       /\ ~fn.raised => fn.text = fresh.text

\* C24: once text extraction has failed in process_book, the run is in its
\* terminal failed state and the row of its book differs, in status or in
\* metadata, from the row of a book that is still being processed.
C24_ExtractionFailureRecorded ==
  \A i \in DOMAIN runs :
    (runs[i].pc = "failed" /\ runs[i].failed_at = "extract") =>
      \A b \in BooksOf(books, runs[i]) :
        <<books[b].status, books[b].book_metadata>> # <<PROCESSING, EmptyDict>>

\* C25: no run is in the extraction step once the extraction has taken longer
\* than EXTRACTION_TIMEOUT seconds: by then the run has failed at that step.
C25_ExtractionTimesOut ==
  \A i \in DOMAIN runs :
    runs[i].pc = "extract" => runs[i].waited <= EXTRACTION_TIMEOUT

\* C26: a register request with an email that, letter case aside, is the
\* email of a user ends with status 400 'Email already registered' and leaves
\* the users table as it was; and no two users have the same email, letter
\* case aside.
C26_DuplicateEmailRejected ==
  [][/\ (auth'.op = "register" /\ <<users, auth>>' # <<users, auth>>
         /\ \E k \in 1..Len(users) : lower(users[k].email) = lower(auth'.email)) =>
          /\ auth'.status = 400
          /\ auth'.detail = "Email already registered"
          /\ users' = users
     /\ \A j, k \in 1..Len(users') :
          lower(users'[j].email) = lower(users'[k].email) => j = k]_vars

\* C27: a run of process_book commits to no book but the one its upload
\* created (book_id, the id upload_book returned), and to none at all when
\* that book has been deleted by the time it commits.
C27_CommitsToOwnBook ==
  [][\A i \in (DOMAIN runs) \cap (DOMAIN runs') :
       (runs[i].pc = "commit" /\ runs'[i].pc = "done") =>
         /\ runs'[i].committed_to \in {NoInt, runs[i].book_id}
         /\ runs[i].book_id[1] \notin DOMAIN books => runs'[i].committed_to = NoInt]_vars

\* A step of upload_book or of process_book: a run starts or moves on
RunStep ==
  Len(runs') # Len(runs) \/ \E i \in DOMAIN runs : runs'[i].pc # runs[i].pc

\* C28: a step of delete_book (the step that changes no run) that leaves the
\* book in the table has failed, and leaves its row, its raw file and its
\* extracted text as they were.
C28_DeleteAllOrNothing ==
  [][\A b \in (DOMAIN books) \cap (DOMAIN books') :
       ~RunStep =>
         /\ books'[b] = books[b]
         /\ \A k \in {books[b].file_key, books[b].text_key} :
              k \in DOMAIN store => (k \in DOMAIN store' /\ store'[k] = store[k])]_vars

\* C29: no step of process_book (a step that changes a run), its commit
\* included, changes the status of a book that update_book has set to READING
\* or FINISHED.
C29_CommitKeepsReadingState ==
  [][\A b \in (DOMAIN books) \cap (DOMAIN books') :
       (RunStep /\ books[b].status \in {READING, FINISHED}) =>
         books'[b].status = books[b].status]_vars

\* C30: every get_book request (a step that changes the response) for a book
\* of the caller that is in the table succeeds, whatever the state of the
\* book is.
C30_GetBookSucceeds ==
  [][(/\ reply' # reply
      /\ reply'.book_id \in DOMAIN books
      /\ books[reply'.book_id].user_id = U1) => reply'.status = 200]_vars

====
